---- MODULE Spec2Model ----
(***************************************************************************)
(* Model of prowler/providers/kubernetes/services/core/core_service.py:    *)
(* the constructor of Core, which runs _get_pods, _list_config_maps,       *)
(* _list_nodes and _in_worker_node in sequence, each inside its own        *)
(* try/except, and fills the pods, config_maps and nodes mappings.         *)
(***************************************************************************)
EXTENDS Naturals, Sequences, FiniteSets

VARIABLES
    pc,           \* the phase the constructor is in
    namespaces,   \* self.namespaces, in iteration order
    nsIdx,        \* number of namespaces whose pod list call has been issued
    listing,      \* TRUE while the items of a list response are iterated
    pods,         \* self.pods
    config_maps,  \* self.config_maps
    nodes,        \* self.nodes
    item,         \* the API object handled by the last loop iteration
    hostname,     \* the local `hostname` of _in_worker_node
    calls,        \* history: the external calls issued so far, in order
    errors,       \* history: what logger.error received, in order
    ran,          \* history: the phases entered so far, in order
    raised,       \* TRUE when an exception has left the constructor
    replaced,     \* the last loop iteration overwrote an entry of the same key
    varied        \* the resource kind whose API responses range over all samples

vars == <<pc, namespaces, nsIdx, listing, pods, config_maps, nodes, item,
          hostname, calls, errors, ran, raised, varied>>

\* The longest namespace list supplied by the provider.
MaxNamespaces == 2

----------------------------------------------------------------------------
(* Python values. Every value carries its type, so that None, "", [] and {} *)
(* stay distinct.                                                           *)

None == [tag |-> "None"]
Str(s) == [tag |-> "str", val |-> s]
Bool(b) == [tag |-> "bool", val |-> b]
Int(n) == [tag |-> "int", val |-> n]
List(s) == [tag |-> "list", items |-> s]
Dict(d) == [tag |-> "dict", items |-> d]
\* An object of the kubernetes client (V1SecurityContext, V1NodeSystemInfo ...).
Obj(f) == [tag |-> "obj", fields |-> f]

\* The empty dict {} of __init__, also the items of an empty Dict.
EmptyMap == [k \in {} |-> None]
EmptyDict == Dict(EmptyMap)

\* m[k] = v of a Python dict: inserts, or overwrites the entry of an equal key.
Put(m, k, v) == [x \in (DOMAIN m) \cup {k} |-> IF x = k THEN v ELSE m[x]]

\* bool(v), as the `x if x else y` expressions evaluate it.
Truthy(v) ==
    CASE v.tag = "None" -> FALSE
      [] v.tag = "str" -> v.val # ""
      [] v.tag = "bool" -> v.val
      [] v.tag = "int" -> v.val # 0
      [] v.tag = "list" -> v.items # <<>>
      [] v.tag = "dict" -> DOMAIN v.items # {}
      [] OTHER -> TRUE

\* obj.to_dict() of a kubernetes client object.
ToDict(o) == Dict(o.fields)

\* pydantic's validation of a field declared `str`: None is refused. (The API
\* objects of this model hold a str, a bool or None in such a field.)
StrOk(v) == v.tag \in {"str", "bool"}
\* pydantic's coercion of a field declared str / Optional[str]: str(True) is
\* "True"; None passes through an Optional field.
StrField(v) ==
    CASE v.tag = "bool" -> Str(IF v.val THEN "True" ELSE "False")
      [] OTHER -> v

----------------------------------------------------------------------------
(* _get_pods: the record built from one pod of a list response.            *)

\* `x if x else []` of lines 31-39, as the sequence that is iterated.
GroupItems(g) == IF Truthy(g) THEN g.items ELSE <<>>

\* The order in which the loop of line 40 overwrites by name: ephemeral
\* containers first (a merge in the wrong order).
MergedEphemeralFirst(pod) ==
    GroupItems(pod.spec.ephemeral_containers)
        \o GroupItems(pod.spec.init_containers)
        \o GroupItems(pod.spec.containers)

\* containers + init_containers + ephemeral_containers (line 41).
Merged(pod) ==
    GroupItems(pod.spec.containers)
        \o GroupItems(pod.spec.init_containers)
        \o GroupItems(pod.spec.ephemeral_containers)

\* Container(...) of lines 43-68 raises a ValidationError when name or image
\* is not a str.
ContainerOk(c) == StrOk(c.name) /\ StrOk(c.image)

\* The Container built by lines 43-68.
ContainerOf(c) ==
    [name |-> StrField(c.name),
     image |-> StrField(c.image),
     command |-> IF Truthy(c.command) THEN c.command ELSE None,
     ports |-> IF Truthy(c.ports)
               THEN List([i \in DOMAIN c.ports.items |->
                            Dict([containerPort |-> c.ports.items[i].container_port])])
               ELSE None,
     env |-> IF Truthy(c.env)
             THEN List([i \in DOMAIN c.env.items |->
                          Dict([name |-> c.env.items[i].name,
                                value |-> c.env.items[i].value])])
             ELSE None,
     security_context |-> IF Truthy(c.security_context)
                          THEN ToDict(c.security_context)
                          ELSE EmptyDict]

\* pod_containers after the loop of lines 40-68 has run over cs: a later
\* container overwrites an earlier one of the same name.
RECURSIVE PodContainers(_)
PodContainers(cs) ==
    IF cs = <<>> THEN EmptyMap
    ELSE Put(PodContainers(SubSeq(cs, 1, Len(cs) - 1)),
             cs[Len(cs)].name, ContainerOf(cs[Len(cs)]))

\* Pod(...) of lines 69-89 raises a ValidationError when a required field
\* (name, uid, namespace) is not a str.
PodOk(pod) ==
    /\ StrOk(pod.metadata.name)
    /\ StrOk(pod.metadata.uid)
    /\ StrOk(pod.metadata.namespace)

\* The Pod built by lines 69-89, given its container mapping.
PodRecord(pod, containers) ==
    [name |-> StrField(pod.metadata.name),
     uid |-> StrField(pod.metadata.uid),
     namespace |-> StrField(pod.metadata.namespace),
     labels |-> pod.metadata.labels,
     annotations |-> pod.metadata.annotations,
     node_name |-> StrField(pod.spec.node_name),
     service_account |-> StrField(pod.spec.service_account_name),
     status_phase |-> StrField(pod.status.phase),
     pod_ip |-> StrField(pod.status.pod_ip),
     host_ip |-> StrField(pod.status.host_ip),
     host_pid |-> StrField(pod.spec.host_pid),
     host_ipc |-> StrField(pod.spec.host_ipc),
     host_network |-> pod.spec.host_network,
     security_context |-> IF Truthy(pod.spec.security_context)
                          THEN ToDict(pod.spec.security_context)
                          ELSE EmptyDict,
     containers |-> containers]

\* The key of line 69, were the pod stored under its name.
PodKeyByName(pod) == pod.metadata.name

\* The key under which line 69 stores the pod.
PodKey(pod) == pod.metadata.uid

\* One iteration of the loop of line 29, were the pod stored with an empty
\* container mapping first and its containers built afterwards.
GetPodsItemEager(map, pod) ==
    LET cs == Merged(pod)
    IN  IF \E i \in DOMAIN cs : ~ContainerOk(cs[i])
        THEN [ok |-> FALSE, point |-> "Container",
              map |-> IF PodOk(pod)
                      THEN Put(map, PodKey(pod), PodRecord(pod, EmptyMap))
                      ELSE map]
        ELSE IF ~PodOk(pod)
        THEN [ok |-> FALSE, point |-> "Pod", map |-> map]
        ELSE [ok |-> TRUE, point |-> "",
              map |-> Put(map, PodKey(pod), PodRecord(pod, PodContainers(cs)))]

\* One iteration of the loop of line 29 (lines 30-89) on self.pods = map:
\* whether it completed, where it raised, and self.pods afterwards.
GetPodsItem(map, pod) ==
    LET cs == Merged(pod)
    IN  IF \E i \in DOMAIN cs : ~ContainerOk(cs[i])
        THEN [ok |-> FALSE, point |-> "Container", map |-> map]
        ELSE IF ~PodOk(pod)
        THEN [ok |-> FALSE, point |-> "Pod", map |-> map]
        ELSE [ok |-> TRUE, point |-> "",
              map |-> Put(map, PodKey(pod), PodRecord(pod, PodContainers(cs)))]

----------------------------------------------------------------------------
(* _list_config_maps and _list_nodes: the record built from one item.      *)

\* ConfigMap(...) of lines 99-106 raises a ValidationError when a required
\* field (name, namespace, uid) is not a str.
ConfigMapOk(cm) ==
    /\ StrOk(cm.metadata.name)
    /\ StrOk(cm.metadata.namespace)
    /\ StrOk(cm.metadata.uid)

\* The ConfigMap built by lines 99-106; kubelet_args takes its default.
ConfigMapRecord(cm) ==
    [name |-> StrField(cm.metadata.name),
     namespace |-> StrField(cm.metadata.namespace),
     uid |-> StrField(cm.metadata.uid),
     data |-> cm.data,
     labels |-> cm.metadata.labels,
     kubelet_args |-> List(<<>>),
     annotations |-> cm.metadata.annotations]

\* The key under which line 99 stores the config map.
ConfigMapKey(cm) == cm.metadata.uid

\* One iteration of the loop of line 98 on self.config_maps = map.
ListConfigMapsItem(map, cm) ==
    IF ~ConfigMapOk(cm)
    THEN [ok |-> FALSE, point |-> "ConfigMap", map |-> map]
    ELSE [ok |-> TRUE, point |-> "",
          map |-> Put(map, ConfigMapKey(cm), ConfigMapRecord(cm))]

\* The namespace of a Node, were the API's value copied as it is.
NodeNamespaceVerbatim(node) == node.metadata.namespace

\* The namespace argument of lines 119-123.
NodeNamespace(node) ==
    IF Truthy(node.metadata.namespace)
    THEN node.metadata.namespace
    ELSE Str("cluster-wide")

\* Node(...) of lines 116-132 raises a ValidationError when a required field
\* (name, uid, namespace) is not a str.
NodeOk(node) ==
    /\ StrOk(node.metadata.name)
    /\ StrOk(node.metadata.uid)
    /\ StrOk(NodeNamespace(node))

\* The Node built by lines 116-132; inside takes its default, False.
NodeRecord(node) ==
    [name |-> StrField(node.metadata.name),
     uid |-> StrField(node.metadata.uid),
     namespace |-> StrField(NodeNamespace(node)),
     labels |-> node.metadata.labels,
     annotations |-> node.metadata.annotations,
     unschedulable |-> node.spec.unschedulable,
     node_info |-> IF Truthy(node.status.node_info)
                   THEN ToDict(node.status.node_info)
                   ELSE None,
     inside |-> FALSE]

\* The key under which line 133 stores the node.
NodeKey(node) == node.metadata.uid

\* One iteration of the loop of line 115 on self.nodes = map.
ListNodesItem(map, node) ==
    IF ~NodeOk(node)
    THEN [ok |-> FALSE, point |-> "Node", map |-> map]
    ELSE [ok |-> TRUE, point |-> "",
          map |-> Put(map, NodeKey(node), NodeRecord(node))]

----------------------------------------------------------------------------
(* _in_worker_node.                                                        *)

\* What socket.gethostname() gives when it raises.
HostnameError == [tag |-> "OSError"]

\* The loop of lines 142-144, were it to stop at the first matching node.
MarkFirstMatch(map, h) ==
    IF \E k \in DOMAIN map : map[k].name = h
    THEN LET first == CHOOSE k \in DOMAIN map : map[k].name = h
         IN  [map EXCEPT ![first].inside = TRUE]
    ELSE map

\* The loop of lines 142-144, were the comparison left out.
MarkAll(map, h) == [k \in DOMAIN map |-> [map[k] EXCEPT !.inside = TRUE]]

\* The loop of lines 142-144: every node whose name equals the hostname gets
\* inside = True, the others keep theirs.
MarkInside(map, h) ==
    [k \in DOMAIN map |->
        IF h = map[k].name THEN [map[k] EXCEPT !.inside = TRUE] ELSE map[k]]

\* self.nodes after _in_worker_node, were a failed hostname query to mark
\* every node as the local one.
InWorkerNodeMarkOnError(map, h) ==
    IF h = HostnameError THEN MarkAll(map, h) ELSE MarkInside(map, h)

\* self.nodes after _in_worker_node, h being the outcome of line 141.
InWorkerNodeResult(map, h) ==
    IF h = HostnameError THEN map ELSE MarkInside(map, h)

----------------------------------------------------------------------------
(* The cluster as the API reports it: the objects a list response may hold. *)

Kinds == {"pods", "config_maps", "nodes"}
NamespaceNames == {"default", "kube-system"}
\* provider.namespaces: any list of at most MaxNamespaces names; a name may
\* be listed twice.
NamespaceLists == UNION {[1..n -> NamespaceNames] : n \in 0..MaxNamespaces}
UIDs == {Str("uid-1"), Str("uid-2")}

\* A container of group g: the standard ones leave every optional field
\* unset, the init ones set them all, the ephemeral ones hold empty lists.
ApiContainer(n, g) ==
    [name |-> n,
     image |-> Str(g),
     command |-> CASE g = "standard" -> None
                   [] g = "init" -> List(<<Str("sh"), Str("-c")>>)
                   [] OTHER -> List(<<>>),
     ports |-> CASE g = "standard" -> None
                 [] g = "init" -> List(<<[container_port |-> Int(8080)],
                                         [container_port |-> Int(8443)]>>)
                 [] OTHER -> List(<<>>),
     env |-> CASE g = "standard" -> None
               [] g = "init" -> List(<<[name |-> Str("MODE"), value |-> Str("audit")]>>)
               [] OTHER -> List(<<>>),
     security_context |-> IF g = "init"
                          THEN Obj([privileged |-> Bool(TRUE)])
                          ELSE None]

\* What a pod may hold in its group g: nothing, one container, or two.
GroupChoices(g) ==
    {None,
     List(<<ApiContainer(Str("app"), g)>>),
     List(<<ApiContainer(Str("app"), g), ApiContainer(Str("sidecar"), g)>>)}

\* A pod of namespace ns; full says whether its optional fields are set.
ApiPod(uid, name, ns, full, std, init, eph) ==
    [kind |-> "Pod",
     metadata |-> [name |-> name, uid |-> uid, namespace |-> Str(ns),
                   labels |-> IF full THEN Dict([app |-> Str("web")]) ELSE None,
                   annotations |-> IF full THEN Dict([owner |-> Str("ops")]) ELSE None],
     spec |-> [containers |-> std,
               init_containers |-> init,
               ephemeral_containers |-> eph,
               node_name |-> IF full THEN Str("node-a") ELSE None,
               service_account_name |-> IF full THEN Str("default") ELSE None,
               host_pid |-> IF full THEN Bool(TRUE) ELSE None,
               host_ipc |-> IF full THEN Bool(FALSE) ELSE None,
               host_network |-> IF full THEN Bool(FALSE) ELSE None,
               security_context |-> IF full
                                    THEN Obj([run_as_non_root |-> Bool(TRUE)])
                                    ELSE None],
     status |-> [phase |-> IF full THEN Str("Running") ELSE None,
                 pod_ip |-> IF full THEN Str("10.0.0.7") ELSE None,
                 host_ip |-> IF full THEN Str("192.168.0.2") ELSE None]]

\* The pods of a namespace when the pods are not the varied kind: a well
\* formed one and a malformed one (no name).
PlainPods(ns) ==
    {ApiPod(Str("uid-1"), Str("web"), ns, FALSE,
            List(<<ApiContainer(Str("app"), "standard")>>), None, None),
     ApiPod(Str("uid-2"), None, ns, FALSE,
            List(<<ApiContainer(Str("app"), "standard")>>), None, None)}

\* The pods list_namespaced_pod(ns) may return: both UIDs with the optional
\* fields set or unset, every combination of the three container groups,
\* empty groups, and two malformed pods (a container without image, a pod
\* without name).
SamplePods(ns) ==
    {ApiPod(u, Str("web"), ns, full,
            List(<<ApiContainer(Str("app"), "standard")>>), None, None) :
        u \in UIDs, full \in BOOLEAN}
    \cup {ApiPod(Str("uid-1"), Str("web"), ns, FALSE, std, init, eph) :
            std \in GroupChoices("standard"), init \in GroupChoices("init"),
            eph \in GroupChoices("ephemeral")}
    \cup {ApiPod(Str("uid-2"), Str("web"), ns, FALSE, List(<<>>), List(<<>>), List(<<>>)),
          ApiPod(Str("uid-2"), Str("web"), ns, FALSE,
                 List(<<ApiContainer(Str("app"), "standard")>>),
                 List(<<[ApiContainer(Str("sidecar"), "init") EXCEPT !.image = None]>>),
                 None),
          ApiPod(Str("uid-2"), None, ns, FALSE,
                 List(<<ApiContainer(Str("app"), "standard")>>), None, None)}

ApiConfigMap(uid, name, data, full) ==
    [kind |-> "ConfigMap",
     metadata |-> [name |-> name, uid |-> uid, namespace |-> Str("kube-system"),
                   labels |-> IF full THEN Dict([tier |-> Str("control")]) ELSE None,
                   annotations |-> IF full THEN Dict([owner |-> Str("ops")]) ELSE None],
     data |-> data]

\* The config maps when they are not the varied kind: a well formed one and
\* a malformed one (no name).
PlainConfigMaps ==
    {ApiConfigMap(Str("uid-1"), Str("kubelet-config"), None, FALSE),
     ApiConfigMap(Str("uid-2"), None, None, FALSE)}

\* The config maps list_config_map_for_all_namespaces() may return: data
\* unset, empty or filled, and one malformed config map (no name).
SampleConfigMaps ==
    {ApiConfigMap(u, Str("kubelet-config"), None, FALSE) : u \in UIDs}
    \cup {ApiConfigMap(u, Str("kubelet-config"), EmptyDict, FALSE) : u \in UIDs}
    \cup {ApiConfigMap(u, Str("kubelet-config"),
                       Dict([kubelet |-> Str("anonymous-auth: false")]), TRUE) :
            u \in UIDs}
    \cup {ApiConfigMap(Str("uid-2"), None, None, FALSE)}

NodeNames == {Str("node-a"), Str("node-b")}

ApiNode(uid, name, ns, full) ==
    [kind |-> "Node",
     metadata |-> [name |-> name, uid |-> uid, namespace |-> ns,
                   labels |-> IF full THEN Dict([role |-> Str("worker")]) ELSE None,
                   annotations |-> IF full THEN Dict([owner |-> Str("ops")]) ELSE None],
     spec |-> [unschedulable |-> IF full THEN Bool(TRUE) ELSE None],
     status |-> [node_info |-> IF full
                               THEN Obj([architecture |-> Str("amd64"),
                                         kubelet_version |-> Str("v1.29.0")])
                               ELSE None]]

\* The nodes when they are not the varied kind: a well formed one and a
\* malformed one (no name).
PlainNodes ==
    {ApiNode(Str("uid-1"), Str("node-a"), None, FALSE),
     ApiNode(Str("uid-2"), None, None, FALSE)}

\* The nodes list_node() may return: both UIDs and names, the metadata
\* namespace unset, empty or set, the optional fields set or unset, and
\* one malformed node (no name).
SampleNodes ==
    {ApiNode(u, n, ns, FALSE) :
        u \in UIDs, n \in NodeNames, ns \in {None, Str(""), Str("kube-system")}}
    \cup {ApiNode(u, n, None, TRUE) : u \in UIDs, n \in NodeNames}
    \cup {ApiNode(Str("uid-2"), None, None, FALSE)}

\* What socket.gethostname() may give: the name of a node, a name no node
\* has, or an error.
HostnameResults == {Str("node-a"), Str("laptop"), HostnameError}

\* The namespace lists of a run: every list when the pods are the varied
\* kind, the single default namespace otherwise.
Namespaces == IF varied = "pods" THEN NamespaceLists ELSE {<<"default">>}
ApiPods(ns) == IF varied = "pods" THEN SamplePods(ns) ELSE PlainPods(ns)
ApiConfigMaps == IF varied = "config_maps" THEN SampleConfigMaps ELSE PlainConfigMaps
ApiNodes == IF varied = "nodes" THEN SampleNodes ELSE PlainNodes

----------------------------------------------------------------------------
(* Core.__init__: the four phases and what ends each of them.              *)

PhaseOrder == <<"get_pods", "list_config_maps", "list_nodes", "in_worker_node">>
Phases == {PhaseOrder[i] : i \in DOMAIN PhaseOrder}

\* The order of lines 18-23, were the nodes listed before the config maps.
NextPhaseNodesFirst(p) ==
    CASE p = "get_pods" -> "list_nodes"
      [] p = "list_nodes" -> "list_config_maps"
      [] p = "list_config_maps" -> "in_worker_node"
      [] OTHER -> "done"

\* Where __init__ goes on when phase p returns (lines 18-23).
NextPhase(p) ==
    CASE p = "get_pods" -> "list_config_maps"
      [] p = "list_config_maps" -> "list_nodes"
      [] p = "list_nodes" -> "in_worker_node"
      [] OTHER -> "done"

\* A phase without its try/except: the exception leaves __init__.
Uncaught(p) == [pc |-> "raised", raised |-> TRUE]

\* _list_nodes without its try/except.
UncaughtNodes(p) ==
    IF p = "list_nodes" THEN [pc |-> "raised", raised |-> TRUE]
    ELSE [pc |-> NextPhase(p), raised |-> FALSE]

\* `except Exception` of phase p (lines 90, 107, 134, 146): the error is
\* logged, the phase returns and __init__ goes on.
Except(p) == [pc |-> NextPhase(p), raised |-> FALSE]

Entered(next) == IF next \in Phases THEN Append(ran, next) ELSE ran

\* Phase p raises at `point`.
Fail(p, point) ==
    /\ pc' = Except(p).pc
    /\ raised' = Except(p).raised
    /\ errors' = Append(errors, [phase |-> p, point |-> point])
    /\ ran' = Entered(Except(p).pc)
    /\ listing' = FALSE

\* Phase p returns normally.
Return(p) ==
    /\ pc' = NextPhase(p)
    /\ ran' = Entered(NextPhase(p))
    /\ listing' = FALSE
    /\ UNCHANGED <<errors, raised>>

Call(api, arg) == calls' = Append(calls, [api |-> api, arg |-> arg])

Init ==
    /\ pc = "get_pods"
    /\ varied \in Kinds
    /\ namespaces \in Namespaces
    /\ nsIdx = 0
    /\ listing = FALSE
    /\ pods = EmptyMap
    /\ config_maps = EmptyMap
    /\ nodes = EmptyMap
    /\ item = None
    /\ hostname = None
    /\ calls = <<>>
    /\ errors = <<>>
    /\ ran = <<"get_pods">>
    /\ raised = FALSE
    /\ replaced = FALSE

\* Line 28: the pod list call for the next namespace.
ListNamespacedPod ==
    /\ pc = "get_pods" /\ ~listing /\ nsIdx < Len(namespaces)
    /\ nsIdx' = nsIdx + 1
    /\ Call("list_namespaced_pod", namespaces[nsIdx + 1])
    /\ item' = None
    /\ replaced' = FALSE
    /\ \/ /\ listing' = TRUE
          /\ UNCHANGED <<pc, ran, errors, raised>>
       \/ Fail("get_pods", "list_namespaced_pod")
    /\ UNCHANGED <<namespaces, pods, config_maps, nodes, hostname, varied>>

\* Lines 29-89: the next pod of the response is turned into a record.
GetPodsLoop ==
    /\ pc = "get_pods" /\ listing
    /\ \E pod \in ApiPods(namespaces[nsIdx]) :
         LET r == GetPodsItem(pods, pod)
         IN  /\ item' = pod
             /\ pods' = r.map
             /\ IF r.ok
                THEN /\ replaced' = (PodKey(pod) \in DOMAIN pods)
                     /\ UNCHANGED <<pc, ran, errors, raised, listing>>
                ELSE /\ Fail("get_pods", r.point)
                     /\ replaced' = FALSE
    /\ UNCHANGED <<namespaces, nsIdx, config_maps, nodes, hostname, calls, varied>>

\* Line 29: the response has no further pod; line 27 takes the next namespace.
GetPodsNextNamespace ==
    /\ pc = "get_pods" /\ listing
    /\ listing' = FALSE
    /\ item' = None
    /\ replaced' = FALSE
    /\ UNCHANGED <<pc, namespaces, nsIdx, pods, config_maps, nodes, hostname,
                   calls, errors, ran, raised, varied>>

\* Line 27: no further namespace; _get_pods returns.
GetPodsReturn ==
    /\ pc = "get_pods" /\ ~listing /\ nsIdx = Len(namespaces)
    /\ Return("get_pods")
    /\ item' = None
    /\ replaced' = FALSE
    /\ UNCHANGED <<namespaces, nsIdx, pods, config_maps, nodes, hostname,
                   calls, varied>>

\* Line 97: the one config map list call.
ListConfigMapForAllNamespaces ==
    /\ pc = "list_config_maps" /\ ~listing
    /\ Call("list_config_map_for_all_namespaces", "")
    /\ item' = None
    /\ replaced' = FALSE
    /\ \/ /\ listing' = TRUE
          /\ UNCHANGED <<pc, ran, errors, raised>>
       \/ Fail("list_config_maps", "list_config_map_for_all_namespaces")
    /\ UNCHANGED <<namespaces, nsIdx, pods, config_maps, nodes, hostname, varied>>

\* Lines 98-106: the next config map of the response is turned into a record.
ListConfigMapsLoop ==
    /\ pc = "list_config_maps" /\ listing
    /\ \E cm \in ApiConfigMaps :
         LET r == ListConfigMapsItem(config_maps, cm)
         IN  /\ item' = cm
             /\ config_maps' = r.map
             /\ IF r.ok
                THEN /\ replaced' = (ConfigMapKey(cm) \in DOMAIN config_maps)
                     /\ UNCHANGED <<pc, ran, errors, raised, listing>>
                ELSE /\ Fail("list_config_maps", r.point)
                     /\ replaced' = FALSE
    /\ UNCHANGED <<namespaces, nsIdx, pods, nodes, hostname, calls, varied>>

\* Line 98: the response has no further config map; _list_config_maps returns.
ListConfigMapsReturn ==
    /\ pc = "list_config_maps" /\ listing
    /\ Return("list_config_maps")
    /\ item' = None
    /\ replaced' = FALSE
    /\ UNCHANGED <<namespaces, nsIdx, pods, config_maps, nodes, hostname,
                   calls, varied>>

\* Line 114: the one node list call.
ListNode ==
    /\ pc = "list_nodes" /\ ~listing
    /\ Call("list_node", "")
    /\ item' = None
    /\ replaced' = FALSE
    /\ \/ /\ listing' = TRUE
          /\ UNCHANGED <<pc, ran, errors, raised>>
       \/ Fail("list_nodes", "list_node")
    /\ UNCHANGED <<namespaces, nsIdx, pods, config_maps, nodes, hostname, varied>>

\* Lines 115-133: the next node of the response is turned into a record.
ListNodesLoop ==
    /\ pc = "list_nodes" /\ listing
    /\ \E node \in ApiNodes :
         LET r == ListNodesItem(nodes, node)
         IN  /\ item' = node
             /\ nodes' = r.map
             /\ IF r.ok
                THEN /\ replaced' = (NodeKey(node) \in DOMAIN nodes)
                     /\ UNCHANGED <<pc, ran, errors, raised, listing>>
                ELSE /\ Fail("list_nodes", r.point)
                     /\ replaced' = FALSE
    /\ UNCHANGED <<namespaces, nsIdx, pods, config_maps, hostname, calls, varied>>

\* Line 115: the response has no further node; _list_nodes returns.
ListNodesReturn ==
    /\ pc = "list_nodes" /\ listing
    /\ Return("list_nodes")
    /\ item' = None
    /\ replaced' = FALSE
    /\ UNCHANGED <<namespaces, nsIdx, pods, config_maps, nodes, hostname,
                   calls, varied>>

\* Lines 139-149: the hostname query and the marking of the matching nodes.
InWorkerNode ==
    /\ pc = "in_worker_node"
    /\ Call("gethostname", "")
    /\ item' = None
    /\ replaced' = FALSE
    /\ \E h \in HostnameResults :
         /\ hostname' = h
         /\ nodes' = InWorkerNodeResult(nodes, h)
         /\ IF h = HostnameError
            THEN Fail("in_worker_node", "gethostname")
            ELSE Return("in_worker_node")
    /\ UNCHANGED <<namespaces, nsIdx, pods, config_maps, varied>>

Next ==
    \/ ListNamespacedPod
    \/ GetPodsLoop
    \/ GetPodsNextNamespace
    \/ GetPodsReturn
    \/ ListConfigMapForAllNamespaces
    \/ ListConfigMapsLoop
    \/ ListConfigMapsReturn
    \/ ListNode
    \/ ListNodesLoop
    \/ ListNodesReturn
    \/ InWorkerNode

Spec == Init /\ [][Next]_vars

----------------------------------------------------------------------------
(* Properties.                                                             *)

\* The phase that follows p in the constructor's text.
NextPhaseOf(p) ==
    IF p = "in_worker_node" THEN "done"
    ELSE PhaseOrder[(CHOOSE i \in DOMAIN PhaseOrder : PhaseOrder[i] = p) + 1]
Range(f) == {f[i] : i \in DOMAIN f}
Failed(p) == \E i \in DOMAIN errors : errors[i].phase = p
\* The last loop iteration handled an object of kind k and completed.
Stored(k, phase) == item # None /\ item.kind = k /\ pc = phase /\ listing

\* C1: no exception leaves the constructor, whatever phases fail and
\* wherever inside them: the phase that logged an error is over, the phase
\* after it has been entered (or construction is done), and a finished
\* construction has entered all four phases in order.
C1_ErrorsStayInsideTheirPhase ==
    /\ raised = FALSE
    /\ pc \in Phases \cup {"done"}
    /\ \A i \in DOMAIN errors :
         /\ errors[i].phase # pc
         /\ NextPhaseOf(errors[i].phase) \in Range(ran) \cup {pc}
    /\ pc = "done" => ran = PhaseOrder

\* All four phases failed: two inside their loops, two at their calls.
C1_Witness ==
    /\ pc = "done"
    /\ Len(errors) = 4
    /\ errors[1].point = "Container"
    /\ errors[2].point = "ConfigMap"
    /\ errors[3].point = "list_node"
    /\ errors[4].point = "gethostname"

\* The container names of the three groups of a pod.
GroupNames(g) == {GroupItems(g)[i].name : i \in DOMAIN GroupItems(g)}
ContainerNames(pod) ==
    GroupNames(pod.spec.containers)
        \cup GroupNames(pod.spec.init_containers)
        \cup GroupNames(pod.spec.ephemeral_containers)
\* The container of group g that bears name n.
Named(g, n) ==
    GroupItems(g)[CHOOSE i \in DOMAIN GroupItems(g) : GroupItems(g)[i].name = n]
\* The namespaces whose pod list call has been issued.
Visited == {Str(namespaces[i]) : i \in 1..nsIdx}

\* C2: a step of _get_pods that logs an error leaves the pod mapping as it
\* was, raises nothing and hands over to the next phase; a step that
\* completes a pod changes the mapping by that pod's entry alone, with the
\* container mapping of all its containers; no later step touches the
\* mapping, and no entry is of a namespace not yet listed.
C2_PartialPodsKept ==
    [][/\ (pc = "get_pods" /\ errors' # errors) =>
            /\ pods' = pods
            /\ raised' = FALSE
            /\ pc' = "list_config_maps"
       /\ (pc = "get_pods" /\ errors' = errors /\ item' # None) =>
            /\ DOMAIN pods' = DOMAIN pods \cup {item'.metadata.uid}
            /\ \A k \in DOMAIN pods : k # item'.metadata.uid => pods'[k] = pods[k]
            /\ DOMAIN pods'[item'.metadata.uid].containers = ContainerNames(item')
            /\ pods'[item'.metadata.uid].namespace = Str(namespaces[nsIdx])
       /\ (pc = "get_pods" /\ item' = None) => pods' = pods
       /\ pc # "get_pods" => pods' = pods
       /\ \A k \in DOMAIN pods' : pods'[k].namespace \in Visited'
      ]_vars

\* The pod phase failed on a container of a pod of the second namespace,
\* after two pods were stored, one per namespace.
C2_Witness ==
    /\ pc = "list_config_maps"
    /\ errors = <<[phase |-> "get_pods", point |-> "Container"]>>
    /\ item # None /\ item.kind = "Pod"
    /\ nsIdx = 2
    /\ namespaces[1] # namespaces[2]
    /\ item.metadata.uid \in DOMAIN pods
    /\ {pods[k].namespace : k \in DOMAIN pods} = Visited
    /\ \A k \in DOMAIN pods : DOMAIN pods[k].containers # {}

\* C3: the container mapping of a stored pod has the names of the three
\* groups as its keys, and under each name the container of the ephemeral
\* group if it has one of that name, else of the init group, else of the
\* standard group.
C3_EphemeralOverInitOverStandard ==
    Stored("Pod", "get_pods") =>
        LET cs == pods[item.metadata.uid].containers
            winner(n) ==
                IF n \in GroupNames(item.spec.ephemeral_containers)
                THEN Named(item.spec.ephemeral_containers, n)
                ELSE IF n \in GroupNames(item.spec.init_containers)
                THEN Named(item.spec.init_containers, n)
                ELSE Named(item.spec.containers, n)
        IN  /\ DOMAIN cs = ContainerNames(item)
            /\ \A n \in DOMAIN cs : cs[n] = ContainerOf(winner(n))

\* A pod with `app` in all three groups and `sidecar` in the standard and
\* init groups only has been stored.
C3_Witness ==
    /\ Stored("Pod", "get_pods")
    /\ GroupNames(item.spec.containers) = {Str("app"), Str("sidecar")}
    /\ GroupNames(item.spec.init_containers) = {Str("app"), Str("sidecar")}
    /\ GroupNames(item.spec.ephemeral_containers) = {Str("app")}
    /\ pods[item.metadata.uid].containers[Str("app")].image = Str("ephemeral")
    /\ pods[item.metadata.uid].containers[Str("sidecar")].image = Str("init")

KeyedByUid(m) ==
    /\ \A k \in DOMAIN m : m[k].uid = k
    /\ \A j, k \in DOMAIN m : m[j].uid = m[k].uid => j = k

\* C4: every entry of the three mappings is stored under the uid of its
\* record, the object just stored is found under its own UID, and no two
\* entries of a mapping have the same uid.
C4_KeyIsUid ==
    /\ KeyedByUid(pods) /\ KeyedByUid(config_maps) /\ KeyedByUid(nodes)
    /\ Stored("Pod", "get_pods") =>
         /\ item.metadata.uid \in DOMAIN pods
         /\ pods[item.metadata.uid].name = item.metadata.name
    /\ Stored("ConfigMap", "list_config_maps") =>
         /\ item.metadata.uid \in DOMAIN config_maps
         /\ config_maps[item.metadata.uid].data = item.data
    /\ Stored("Node", "list_nodes") =>
         /\ item.metadata.uid \in DOMAIN nodes
         /\ nodes[item.metadata.uid].name = item.metadata.name

\* The API returned a UID a second time (the same namespace listed twice)
\* while the pod mapping held two entries.
C4_Witness ==
    /\ Stored("Pod", "get_pods")
    /\ replaced
    /\ nsIdx = 2 /\ namespaces[1] = namespaces[2]
    /\ Cardinality(DOMAIN pods) = 2

\* C5: after construction with a successful hostname query, a node is
\* marked inside exactly when its name equals the hostname.
C5_InsideIffNameIsHostname ==
    (pc = "done" /\ hostname \notin {None, HostnameError}) =>
        \A k \in DOMAIN nodes : nodes[k].inside <=> (nodes[k].name = hostname)

\* Two nodes bear the hostname and both are marked.
C5_WitnessSeveral ==
    /\ pc = "done"
    /\ hostname = Str("node-a")
    /\ Cardinality(DOMAIN nodes) = 2
    /\ \A k \in DOMAIN nodes : nodes[k].name = hostname /\ nodes[k].inside

ListNodeFailed ==
    \E i \in DOMAIN errors :
        errors[i] = [phase |-> "list_nodes", point |-> "list_node"]
HostnameCall == [api |-> "gethostname", arg |-> ""]

\* C6: once the list_node call has failed, the node mapping is and stays
\* empty, nothing is raised, the marking step is the next to run and
\* construction ends with its hostname query made; the node phase and the
\* marking step leave the pod and config map mappings as they were.
C6_NodeListFailure ==
    [][/\ ListNodeFailed' =>
            /\ nodes' = EmptyMap
            /\ raised' = FALSE
            /\ pc' \in {"in_worker_node", "done"}
            /\ pc' = "done" =>
                 /\ ran' = PhaseOrder
                 /\ calls'[Len(calls')] = HostnameCall
                 /\ hostname' # None
       /\ pc \in {"list_nodes", "in_worker_node"} =>
            /\ pods' = pods
            /\ config_maps' = config_maps
      ]_vars

\* Construction ended after a failed list_node call, with pods and config
\* maps collected before it and the hostname query answered.
C6_Witness ==
    /\ pc = "done"
    /\ ListNodeFailed
    /\ pods # EmptyMap
    /\ config_maps # EmptyMap
    /\ hostname = Str("node-a")

\* C7: a step of _in_worker_node whose hostname query fails raises
\* nothing, ends construction with the error logged, and leaves the node
\* mapping as it was, every node with inside = False.
C7_HostnameFailure ==
    [][(pc = "in_worker_node" /\ hostname' = HostnameError) =>
            /\ raised' = FALSE
            /\ pc' = "done"
            /\ errors' = Append(errors, [phase |-> "in_worker_node",
                                         point |-> "gethostname"])
            /\ nodes' = nodes
            /\ \A k \in DOMAIN nodes' : nodes'[k].inside = FALSE
      ]_vars

\* The hostname query failed with two nodes collected.
C7_Witness ==
    /\ pc = "done"
    /\ hostname = HostnameError
    /\ Cardinality(DOMAIN nodes) = 2
    /\ \E k \in DOMAIN nodes : nodes[k].name = Str("node-a")

\* C8: an optional field that is unset upstream is None in the record: the
\* command, ports and env of a container, the optional fields of a pod with
\* its security context among them, the data, labels and annotations of a
\* config map, and the optional fields of a node.
C8_AbsentStaysNone ==
    /\ Stored("Pod", "get_pods") =>
         LET rec == pods[item.metadata.uid]
         IN  /\ item.metadata.labels = None => rec.labels = None
             /\ item.metadata.annotations = None => rec.annotations = None
             /\ item.spec.node_name = None => rec.node_name = None
             /\ item.spec.service_account_name = None => rec.service_account = None
             /\ item.status.phase = None => rec.status_phase = None
             /\ item.status.pod_ip = None => rec.pod_ip = None
             /\ item.status.host_ip = None => rec.host_ip = None
             /\ item.spec.host_pid = None => rec.host_pid = None
             /\ item.spec.host_ipc = None => rec.host_ipc = None
             /\ item.spec.host_network = None => rec.host_network = None
             /\ item.spec.security_context = None => rec.security_context = None
             /\ \A i \in DOMAIN Merged(item) :
                  LET c == Merged(item)[i]
                  IN  (\A j \in DOMAIN Merged(item) :
                           Merged(item)[j].name = c.name => j <= i) =>
                        /\ c.command = None => rec.containers[c.name].command = None
                        /\ c.ports = None => rec.containers[c.name].ports = None
                        /\ c.env = None => rec.containers[c.name].env = None
    /\ Stored("ConfigMap", "list_config_maps") =>
         LET rec == config_maps[item.metadata.uid]
         IN  /\ item.data = None => rec.data = None
             /\ item.metadata.labels = None => rec.labels = None
             /\ item.metadata.annotations = None => rec.annotations = None
    /\ Stored("Node", "list_nodes") =>
         LET rec == nodes[item.metadata.uid]
         IN  /\ item.metadata.labels = None => rec.labels = None
             /\ item.metadata.annotations = None => rec.annotations = None
             /\ item.spec.unschedulable = None => rec.unschedulable = None
             /\ item.status.node_info = None => rec.node_info = None

\* C9 as stated: every Node has the namespace "cluster-wide", whatever the
\* API reports.
C9_AlwaysClusterWide ==
    \A k \in DOMAIN nodes : nodes[k].namespace = Str("cluster-wide")

\* C9 as amended: a stored Node has the namespace "cluster-wide" when the
\* API reports none (None or the empty string), else the reported one.
C9_ClusterWideWhenUnset ==
    Stored("Node", "list_nodes") =>
        nodes[item.metadata.uid].namespace =
            IF item.metadata.namespace \in {None, Str("")}
            THEN Str("cluster-wide")
            ELSE item.metadata.namespace

\* Nodes of all three kinds have been stored: reported namespace, empty
\* namespace (just stored) and the placeholder.
C9_Witness ==
    /\ Stored("Node", "list_nodes")
    /\ item.metadata.namespace = Str("")
    /\ nodes[item.metadata.uid].namespace = Str("cluster-wide")
    /\ \E k \in DOMAIN nodes : nodes[k].namespace = Str("kube-system")

\* The calls the constructor has issued when it is at pc: one pod list call
\* per namespace taken so far, then the config map call, the node call and
\* the hostname query.
PodCalls == [i \in 1..nsIdx |-> [api |-> "list_namespaced_pod", arg |-> namespaces[i]]]
Once(cond, api) == IF cond THEN <<[api |-> api, arg |-> ""]>> ELSE <<>>
CallsInOrder ==
    /\ nsIdx <= Len(namespaces)
    /\ (pc # "get_pods" /\ ~Failed("get_pods")) => nsIdx = Len(namespaces)
    /\ calls = PodCalls
               \o Once(pc \in {"list_nodes", "in_worker_node", "done"}
                         \/ (pc = "list_config_maps" /\ listing),
                       "list_config_map_for_all_namespaces")
               \o Once(pc \in {"in_worker_node", "done"}
                         \/ (pc = "list_nodes" /\ listing),
                       "list_node")
               \o Once(pc = "done", "gethostname")

\* C10: at every point the calls issued are the pod list calls of the
\* namespaces in iteration order (none after the first failure of the pod
\* phase), then one config map call, one node call and one hostname query;
\* the marking step keeps the nodes and changes nothing but their inside.
C10_CallOrder ==
    [][/\ CallsInOrder
       /\ CallsInOrder'
       /\ pc = "in_worker_node" =>
            /\ DOMAIN nodes' = DOMAIN nodes
            /\ \A k \in DOMAIN nodes : [nodes'[k] EXCEPT !.inside = FALSE] = nodes[k]
      ]_vars

\* The pod phase failed in the first of two namespaces and the three later
\* calls were still made.
C10_Witness ==
    /\ pc = "done"
    /\ Len(namespaces) = 2
    /\ nsIdx = 1
    /\ Failed("get_pods")
    /\ Len(calls) = 4

====
